---- MODULE Spec2Model ----
(***************************************************************************)
(* Six Cities CLI: the generate command (mock data fetch, offer synthesis, *)
(* backpressure-aware file writer) and the import command (streaming       *)
(* TSV-to-JSON transform).                                                 *)
(*                                                                         *)
(* Text is modelled as sequences of integers: a Buffer is a sequence of    *)
(* bytes, a JavaScript string a sequence of code points.                   *)
(***************************************************************************)
EXTENDS Integers, Sequences, FiniteSets, TLC

VARIABLES
    \* ---- import: createReadStream -> TSVTransform -> stdout
    input,          \* the bytes of the file being imported
    pos,            \* how many bytes the read stream has delivered
    remainder,      \* TSVTransform.remainder
    out,            \* what TSVTransform pushed: a sequence of JSON lines
    warnings,       \* the lines console.error reported as skipped
    ipc,            \* position of handleImportCommand
    cbError,        \* TRUE once a _transform/_flush callback was given an error
    received,       \* the text of the chunks _transform was given, in order
    \* ---- generate: generateOffers(mockData, count)
    mockData,       \* the dataset
    count,          \* the number of offers asked for
    i,              \* the loop counter of generateOffers
    rows,           \* the rows yielded so far
    offer,          \* the offer object of the last iteration (none: <<>>)
    gdone,          \* TRUE once the generator has returned
    \* ---- generate: handleGenerateCommand and its write stream
    fetch,          \* the eight got(...).json() promises
    pc,             \* position of handleGenerateCommand
    wsState,        \* the write stream: none, opening, open, closed
    wsBuffer,       \* the chunks accepted by write() and not yet written
    needDrain,      \* a write() returned false and 'drain' is still to come
    ending,         \* writeStream.end() was called
    file,           \* the chunks written to the file
    fileCreated,    \* the file exists
    printed,        \* the success summary was printed
    promise,        \* the promise of handleGenerateCommand
    reason,         \* what it rejected with
    sinkError,      \* the write stream emitted 'error'
    \* ---- cli.ts: the non-streaming handleImportCommand
    cliPc,          \* position of the handler
    cliRows,        \* content.split('\n')
    cliData,        \* the objects rows.map has built so far
    cliLog,         \* what the handler has logged
    cliPromise      \* the promise the handler returned

tsvVars == <<input, pos, remainder, out, warnings, ipc, cbError, received>>

genVars == <<mockData, count, i, rows, offer, gdone>>

cmdVars == <<fetch, pc, wsState, wsBuffer, needDrain, ending, file, fileCreated, printed, promise, reason, sinkError>>

cliVars == <<cliPc, cliRows, cliData, cliLog, cliPromise>>

vars == <<input, pos, remainder, out, warnings, ipc, cbError, received, cliPc, cliRows, cliData, cliLog, cliPromise, mockData, count, i, rows, offer, gdone, fetch, pc, wsState, wsBuffer, needDrain, ending, file, fileCreated, printed, promise, reason, sinkError>>

----------------------------------------------------------------------------
(* Bounds of the model *)

\* most lines in an imported file
MaxLines == 3
\* the read stream delivers chunks of 0..MaxChunk bytes, or all that is left
MaxChunk == 3
\* most offers asked of generate
MaxCount == 2
\* most preview images and most features of a dataset
MaxItems == 7
\* the write stream's highWaterMark, in bytes (scaled down to the rows of
\* the model)
HighWaterMark == 128

----------------------------------------------------------------------------
(* Characters *)

TAB == 9
NL == 10
SPACE == 32
SEMI == 59
\* U+FFFD, what the UTF-8 decoder puts for a malformed sequence
REPLACEMENT == 65533

\* String.prototype.trim strips WhiteSpace and LineTerminator code points
IsWhiteSpace(c) == c \in {9, 10, 11, 12, 13, 32, 160, 5760, 8232, 8233, 8239, 8287, 12288, 65279} \cup (8192..8202)

----------------------------------------------------------------------------
(* Pure helpers of the transform *)

RECURSIVE ConcatRange(_, _, _)
\* ss[lo] \o ... \o ss[hi]
ConcatRange(ss, lo, hi) ==
    IF lo > hi THEN <<>>
    ELSE IF lo = hi THEN ss[lo]
    ELSE ConcatRange(ss, lo, (lo + hi) \div 2) \o ConcatRange(ss, (lo + hi) \div 2 + 1, hi)

\* the concatenation of a sequence of sequences
Concat(ss) == ConcatRange(ss, 1, Len(ss))

\* Buffer.prototype.toString(): UTF-8 decoding of ONE chunk. A lead byte whose
\* continuation is not in the same chunk, and a continuation byte without its
\* lead, each decode to U+FFFD. (Two-byte sequences are enough for the
\* alphabet of the model; longer lead bytes follow the same rule.)
toString(chunk) ==
    LET IsPair(k) == k >= 1 /\ k < Len(chunk) /\ chunk[k] \in 194..223 /\ chunk[k + 1] \in 128..191
        starts == SelectSeq([k \in 1..Len(chunk) |-> k], LAMBDA k : ~IsPair(k - 1))
    IN  [m \in 1..Len(starts) |->
            IF chunk[starts[m]] < 128 THEN chunk[starts[m]]
            ELSE IF IsPair(starts[m]) THEN (chunk[starts[m]] - 192) * 64 + (chunk[starts[m] + 1] - 128)
            ELSE REPLACEMENT]

\* String.prototype.split(sep) for a one-character separator: always at
\* least one piece
split(s, sep) ==
    LET seps == SelectSeq([k \in 1..Len(s) |-> k], LAMBDA k : s[k] = sep)
    IN  [m \in 1..(Len(seps) + 1) |->
            SubSeq(s, IF m = 1 THEN 1 ELSE seps[m - 1] + 1,
                      IF m > Len(seps) THEN Len(s) ELSE seps[m] - 1)]

\* String.prototype.trim() yields '' exactly for the strings made of white
\* space only; `!line.trim()` is all the code asks
trimIsEmpty(line) == \A k \in 1..Len(line) : IsWhiteSpace(line[k])

\* TSVTransform.columns
columns == <<"title", "description", "city", "previewImage", "photos", "isPremium", "rating", "type", "rooms", "guests", "price", "features", "authorName", "authorEmail", "authorAvatar", "authorIsPro", "latitude", "longitude">>

\* Object.fromEntries(columns.map((key, index) => [key, values[index]])) and
\* JSON.stringify of it: the object's members in insertion order, each a
\* <<key, value>> pair. values[index] past the end of values is undefined,
\* which JSON.stringify leaves out.
jsonLine(values) ==
    LET n == IF Len(values) < Len(columns) THEN Len(values) ELSE Len(columns)
    IN  [index \in 1..n |-> <<columns[index], values[index]>>]

\* the mutant of lineStep that aborts on a malformed row instead of skipping it
lineStepAborting(line) ==
    IF trimIsEmpty(line) THEN [push |-> <<>>, warn |-> <<>>, err |-> FALSE]
    ELSE IF Len(split(line, TAB)) # Len(columns)
         THEN [push |-> <<>>, warn |-> <<line>>, err |-> TRUE]
    ELSE [push |-> <<jsonLine(split(line, TAB))>>, warn |-> <<>>, err |-> FALSE]

\* the body of the for loop of _transform, for one line: what is pushed, what
\* is warned about, and whether the stream is given an error
lineStep(line) ==
    IF trimIsEmpty(line) THEN [push |-> <<>>, warn |-> <<>>, err |-> FALSE]
    ELSE IF Len(split(line, TAB)) # Len(columns)
         THEN [push |-> <<>>, warn |-> <<line>>, err |-> FALSE]
    ELSE [push |-> <<jsonLine(split(line, TAB))>>, warn |-> <<>>, err |-> FALSE]

\* the mutant of _transform that does not put the remainder in front of the
\* chunk
_transformForgetful(rem, chunk) ==
    LET lines == split(toString(chunk), NL)
        front == SubSeq(lines, 1, Len(lines) - 1)
        steps == [k \in 1..Len(front) |-> lineStep(front[k])]
    IN  [remainder |-> lines[Len(lines)],
         push |-> Concat([k \in 1..Len(front) |-> steps[k].push]),
         warn |-> Concat([k \in 1..Len(front) |-> steps[k].warn]),
         err |-> \E k \in 1..Len(front) : steps[k].err]

\* _transform(chunk): the new remainder, the JSON lines pushed, the warnings
_transform(rem, chunk) ==
    LET lines == split(rem \o toString(chunk), NL)
        front == SubSeq(lines, 1, Len(lines) - 1)
        steps == [k \in 1..Len(front) |-> lineStep(front[k])]
    IN  [remainder |-> lines[Len(lines)],
         push |-> Concat([k \in 1..Len(front) |-> steps[k].push]),
         warn |-> Concat([k \in 1..Len(front) |-> steps[k].warn]),
         err |-> \E k \in 1..Len(front) : steps[k].err]

\* _flush(): the remainder is left as it is; no warning is ever given
_flush(rem) ==
    IF rem # <<>> /\ Len(split(rem, TAB)) = Len(columns)
    THEN [push |-> <<jsonLine(split(rem, TAB))>>, warn |-> <<>>]
    ELSE [push |-> <<>>, warn |-> <<>>]

----------------------------------------------------------------------------
(* generate: random draws *)

\* Math.random() yields a number in [0, 1): the model draws multiples of
\* 1/RandDen and works with the numerators
RandDen == 1000

\* the numerators drawn: both ends of [0, 1) and the two sides of the
\* thresholds 0.2 (isPremium) and 0.5 (the sort comparator)
Samples == <<0, 199, 200, 499, 500, 999>>

\* one iteration of generateOffers draws Math.random() many times: a tape
\* <<first, stride>> fixes the draws of one iteration
Tapes == (0..(Len(Samples) - 1)) \X {0, 1}

\* the j-th Math.random() of the iteration
random(tape, j) == Samples[((tape[1] + j * tape[2]) % Len(Samples)) + 1]

\* the mutant of generateRandomNumber that rounds instead of flooring
generateRandomNumberRounding(min, max, r) ==
    (2 * r * (max - min + 1) + RandDen) \div (2 * RandDen) + min

\* generateRandomNumber(min, max), r being its Math.random()
generateRandomNumber(min, max, r) == (r * (max - min + 1)) \div RandDen + min

\* getRandomItem(items), r being its Math.random()
getRandomItem(items, r) == items[(r * Len(items)) \div RandDen + 1]

\* the mutant of swap that stores one of the two elements only
swapOverwriting(arr, a, b) == [arr EXCEPT ![a] = arr[b]]

\* the sort exchanges two elements of the array it sorts
swap(arr, a, b) == [arr EXCEPT ![a] = arr[b], ![b] = arr[a]]

RECURSIVE sortFrom(_, _, _, _, _)
\* [...items].sort(() => 0.5 - Math.random()): the comparator is not
\* consistent, so the order is the implementation's; whatever it is, it is a
\* permutation of the copy. Modelled as an insertion sort that draws one
\* Math.random() per comparison: arr[p] is being inserted, idx is the element
\* the pass started from, j the next draw. Yields the array and the next draw.
sortFrom(arr, idx, p, tape, j) ==
    IF idx > Len(arr) THEN [arr |-> arr, j |-> j]
    ELSE IF p = 1 THEN sortFrom(arr, idx + 1, idx + 1, tape, j)
    ELSE IF 2 * random(tape, j) < RandDen
         THEN sortFrom(swap(arr, p - 1, p), idx, p - 1, tape, j + 1)
    ELSE sortFrom(arr, idx + 1, idx + 1, tape, j + 1)

\* the mutant of getRandomItems that slices one element too many
getRandomItemsOneMore(items, cnt, tape, j) ==
    LET s == sortFrom(items, 2, 2, tape, j)
        n == IF cnt + 1 < Len(items) THEN cnt + 1 ELSE Len(items)
    IN  [items |-> SubSeq(s.arr, 1, n), j |-> s.j, source |-> items]

\* the mutant of getRandomItems that sorts the array it is given, not a copy
getRandomItemsInPlace(items, cnt, tape, j) ==
    LET s == sortFrom(items, 2, 2, tape, j)
        n == IF cnt < Len(items) THEN cnt ELSE Len(items)
    IN  [items |-> SubSeq(s.arr, 1, n), j |-> s.j, source |-> s.arr]

\* getRandomItems(items, count): the shuffled copy, sliced; the next draw;
\* and `source`, the array it was given as the call leaves it: [...items] is
\* a copy, so the sort does not touch it
getRandomItems(items, cnt, tape, j) ==
    LET s == sortFrom(items, 2, 2, tape, j)
        n == IF cnt < Len(items) THEN cnt ELSE Len(items)
    IN  [items |-> SubSeq(s.arr, 1, n), j |-> s.j, source |-> items]

\* a / b rounded to the nearest integer, b > 0
RoundDiv(a, b) ==
    IF a >= 0 THEN (2 * a + b) \div (2 * b) ELSE 0 - ((b - 2 * a) \div (2 * b))

\* Math.cos(r * 2 * Math.PI) and Math.sin(r * 2 * Math.PI) in thousandths,
\* truncated, for the draws of Samples
cosE3(r) == CASE r = 0 -> 1000 [] r = 199 -> 314 [] r = 200 -> 309 [] r = 499 -> -999 [] r = 500 -> -1000 [] r = 999 -> 999
sinE3(r) == CASE r = 0 -> 0 [] r = 199 -> 949 [] r = 200 -> 951 [] r = 499 -> 6 [] r = 500 -> 0 [] r = 999 -> -6

RECURSIVE SqrtFloor(_, _, _)
\* the largest s in lo..hi with s * s <= n, by bisection
SqrtFloor(n, lo, hi) ==
    IF lo = hi THEN lo
    ELSE IF ((lo + hi + 1) \div 2) * ((lo + hi + 1) \div 2) <= n
         THEN SqrtFloor(n, (lo + hi + 1) \div 2, hi)
    ELSE SqrtFloor(n, lo, (lo + hi + 1) \div 2 - 1)

\* Math.sqrt(r) in thousandths, truncated
sqrtE3(r) == SqrtFloor(r * RandDen, 0, RandDen)

\* the mutant of generateRandomLocation that takes a degree for 100 km
generateRandomLocationWide(center, rAngle, rRadius) ==
    [latitude |-> center.latitude + RoundDiv(center.radius * sqrtE3(rRadius) * cosE3(rAngle), 100),
     longitude |-> center.longitude + RoundDiv(center.radius * sqrtE3(rRadius) * sinE3(rAngle), 100)]

\* generateRandomLocation(center): latitude and longitude in millionths of a
\* degree, center.radius in km; rAngle and rRadius are its two draws
generateRandomLocation(center, rAngle, rRadius) ==
    [latitude |-> center.latitude + RoundDiv(center.radius * sqrtE3(rRadius) * cosE3(rAngle), 111),
     longitude |-> center.longitude + RoundDiv(center.radius * sqrtE3(rRadius) * sinE3(rAngle), 111)]

----------------------------------------------------------------------------
(* generate: formatting *)

RECURSIVE digits(_)
\* the decimal digits of n >= 0
digits(n) == IF n < 10 THEN <<48 + n>> ELSE digits(n \div 10) \o <<48 + (n % 10)>>

RECURSIVE padded(_, _)
\* the last w decimal digits of n, zero-padded
padded(n, w) == IF w = 0 THEN <<>> ELSE padded(n \div 10, w - 1) \o <<48 + (n % 10)>>

\* String(n) for an integer n
numberToString(n) == IF n < 0 THEN <<45>> \o digits(0 - n) ELSE digits(n)

\* String(b) for a boolean: 'true' / 'false'
booleanToString(b) == IF b THEN <<116, 114, 117, 101>> ELSE <<102, 97, 108, 115, 101>>

\* (Math.random() * 2 + 3).toFixed(1): the value in tenths, rounded half up,
\* printed with one fractional digit
ratingToFixed(r) ==
    LET tenths == (40 * r + 61 * RandDen) \div (2 * RandDen)
    IN  digits(tenths \div 10) \o <<46>> \o padded(tenths, 1)

\* x.toFixed(6) for x given in millionths
toFixed6(v) ==
    LET a == IF v < 0 THEN 0 - v ELSE v
    IN  (IF v < 0 THEN <<45>> ELSE <<>>) \o digits(a \div 1000000) \o <<46>> \o padded(a, 6)

\* Array.prototype.join(sep)
join(items, sep) ==
    Concat([k \in 1..Len(items) |-> IF k = 1 THEN items[k] ELSE <<sep>> \o items[k]])

----------------------------------------------------------------------------
(* generate: the mock data *)

\* users[k].type is compared with 'pro' only
User(name, type) == [name |-> name, email |-> name \o <<64, 120>>, avatarUrl |-> name \o <<46, 112>>, type |-> type]

\* a dataset with nImages preview images, nFeatures features and the given
\* titles; two cities with their coordinates (millionths of a degree, km)
MockData(nImages, nFeatures, titles) ==
    [titles |-> titles,
     descriptions |-> << <<68, 233>> >>,
     cities |-> << <<80>>, <<65>> >>,
     previewImages |-> [k \in 1..nImages |-> <<105, 48 + k>>],
     propertyTypes |-> << <<104>>, <<114>> >>,
     features |-> [k \in 1..nFeatures |-> <<102, 48 + k>>],
     users |-> << User(<<74>>, "pro"), User(<<75>>, "regular") >>,
     coordinates |-> [c \in { <<80>>, <<65>> } |->
                        IF c = <<80>> THEN [latitude |-> 48856600, longitude |-> 2352200, radius |-> 10]
                        ELSE [latitude |-> 52370216, longitude |-> 0 - 50000, radius |-> 15]]]

\* the datasets generateOffers is run on: n preview images and
\* MaxItems + 1 - n features, and one whose title holds a tab character
MockDataSets ==
    {MockData(n, MaxItems + 1 - n, << <<84>>, <<85>> >>) : n \in 1..MaxItems}
        \cup {MockData(MaxItems, MaxItems, << <<84, TAB, 85>> >>)}

\* the dataset before the fetch has been joined
NoData ==
    [titles |-> <<>>, descriptions |-> <<>>, cities |-> <<>>, previewImages |-> <<>>,
     propertyTypes |-> <<>>, features |-> <<>>, users |-> <<>>, coordinates |-> <<>>]

----------------------------------------------------------------------------
(* generate: generateOffers *)

\* the offer object of one iteration, given the draws that precede the
\* object literal: rows 71-93. `photos` is the sampled list, p the first
\* draw after the photo shuffle.
offerObject(data, tape, city, location, photos, p) ==
    LET user == getRandomItem(data.users, random(tape, p))
        feats == getRandomItems(data.features, generateRandomNumber(2, 6, random(tape, p + 10)), tape, p + 11)
    IN  [title |-> getRandomItem(data.titles, random(tape, p + 1)),
         description |-> getRandomItem(data.descriptions, random(tape, p + 2)),
         city |-> city,
         previewImage |-> getRandomItem(data.previewImages, random(tape, p + 3)),
         photos |-> join(photos, SEMI),
         isPremium |-> 5 * random(tape, p + 4) < RandDen,
         rating |-> ratingToFixed(random(tape, p + 5)),
         type |-> getRandomItem(data.propertyTypes, random(tape, p + 6)),
         rooms |-> generateRandomNumber(1, 5, random(tape, p + 7)),
         guests |-> generateRandomNumber(1, 10, random(tape, p + 8)),
         price |-> generateRandomNumber(50, 1000, random(tape, p + 9)),
         features |-> join(feats.items, SEMI),
         authorName |-> user.name,
         authorEmail |-> user.email,
         authorAvatar |-> user.avatarUrl,
         authorIsPro |-> user.type = "pro",
         latitude |-> toFixed6(location.latitude),
         longitude |-> toFixed6(location.longitude)]

\* one iteration of the loop of generateOffers up to the offer object:
\* rows 64-93
generateOffer(data, tape) ==
    LET city == getRandomItem(data.cities, random(tape, 1))
        location == generateRandomLocation(data.coordinates[city], random(tape, 2), random(tape, 3))
        photos == getRandomItems(data.previewImages, generateRandomNumber(3, 6, random(tape, 4)), tape, 5)
    IN  offerObject(data, tape, city, location, photos.items, photos.j)

\* the dataset as one iteration leaves it: the two getRandomItems calls are
\* the only ones that could write to it
mockDataAfter(data, tape) ==
    LET photos == getRandomItems(data.previewImages, generateRandomNumber(3, 6, random(tape, 4)), tape, 5)
        feats == getRandomItems(data.features, generateRandomNumber(2, 6, random(tape, photos.j + 10)), tape, photos.j + 11)
    IN  [data EXCEPT !.previewImages = photos.source, !.features = feats.source]

\* the row of an offer: rows 95-116
rowOf(o) ==
    join(<<o.title, o.description, o.city, o.previewImage, o.photos,
           booleanToString(o.isPremium), o.rating, o.type,
           numberToString(o.rooms), numberToString(o.guests), numberToString(o.price),
           o.features, o.authorName, o.authorEmail, o.authorAvatar,
           booleanToString(o.authorIsPro), o.latitude, o.longitude>>, TAB) \o <<NL>>

\* the consumer asks for the next row and i < count: the generator runs one
\* iteration and yields
Yield ==
    /\ ~gdone
    /\ i < count
    /\ \E tape \in Tapes :
         \E o \in {generateOffer(mockData, tape)} :
            /\ offer' = <<o>>
            /\ rows' = Append(rows, rowOf(o))
            /\ mockData' = mockDataAfter(mockData, tape)
    /\ i' = i + 1
    /\ UNCHANGED <<count, gdone>>

\* the consumer asks for the next row and i = count: the generator returns
Return ==
    /\ ~gdone
    /\ i >= count
    /\ gdone' = TRUE
    /\ UNCHANGED <<mockData, count, i, rows, offer>>

\* what writeStream.write(string) stores and the file holds: the UTF-8
\* encoding of the string
utf8Encode(s) ==
    LET wide == SelectSeq([k \in 1..Len(s) |-> k], LAMBDA k : s[k] >= 128)
        bytesOf(c) ==
            IF c < 2048 THEN <<192 + (c \div 64), 128 + (c % 64)>>
            ELSE <<224 + (c \div 4096), 128 + ((c \div 64) % 64), 128 + (c % 64)>>
    IN  \* the runs of one-byte characters, as they are, and between them the
        \* characters of two or three bytes
        Concat([m \in 1..(2 * Len(wide) + 1) |->
                  IF m % 2 = 0 THEN bytesOf(s[wide[m \div 2]])
                  ELSE SubSeq(s, IF m = 1 THEN 1 ELSE wide[(m - 1) \div 2] + 1,
                                 IF m > 2 * Len(wide) THEN Len(s) ELSE wide[(m + 1) \div 2] - 1)])

\* the generator has returned; the rows were written to a file and that
\* file is imported: new TSVTransform(), the file as one chunk, end of input
ImportRows ==
    /\ gdone
    /\ ipc = "idle"
    /\ \E bytes \in {utf8Encode(Concat(rows))} :
         \E t \in {_transform(<<>>, bytes)} :
            \E f \in {_flush(t.remainder)} :
               /\ input' = bytes
               /\ pos' = Len(bytes)
               /\ remainder' = t.remainder
               /\ received' = toString(bytes)
               /\ out' = t.push \o f.push
               /\ warnings' = t.warn \o f.warn
               /\ cbError' = t.err
               /\ ipc' = IF t.err THEN "failed" ELSE "success"

GenInit ==
    /\ mockData \in MockDataSets
    /\ count \in 0..MaxCount
    /\ i = 0
    /\ rows = <<>>
    /\ offer = <<>>
    /\ gdone = FALSE
    /\ input = <<>>
    /\ pos = 0
    /\ remainder = <<>>
    /\ out = <<>>
    /\ warnings = <<>>
    /\ ipc = "idle"
    /\ cbError = FALSE
    /\ received = <<>>
    /\ cliPc = "idle"
    /\ cliRows = <<>>
    /\ cliData = <<>>
    /\ cliLog = <<>>
    /\ cliPromise = "pending"
    /\ fetch = [k \in 1..8 |-> "pending"]
    /\ pc = "idle"
    /\ wsState = "none"
    /\ wsBuffer = <<>>
    /\ needDrain = FALSE
    /\ ending = FALSE
    /\ file = <<>>
    /\ fileCreated = FALSE
    /\ printed = FALSE
    /\ promise = "pending"
    /\ reason = <<"none", 0>>
    /\ sinkError = FALSE

GenNext ==
    \/ Yield /\ UNCHANGED tsvVars /\ UNCHANGED cmdVars /\ UNCHANGED cliVars
    \/ Return /\ UNCHANGED tsvVars /\ UNCHANGED cmdVars /\ UNCHANGED cliVars
    \/ ImportRows /\ UNCHANGED genVars /\ UNCHANGED cmdVars /\ UNCHANGED cliVars

\* generateOffers pulled by any consumer, its rows imported
SpecGen == GenInit /\ [][GenNext]_vars

----------------------------------------------------------------------------
(* generate: handleGenerateCommand *)

\* the mutant of promiseAll that waits for all to settle and then goes on
promiseAllSettled(f) ==
    IF \A k \in DOMAIN f : f[k] # "pending" THEN "fulfilled" ELSE "pending"

\* Promise.all: rejected as soon as one is, fulfilled when all are
promiseAll(f) ==
    IF \E k \in DOMAIN f : f[k] = "rejected" THEN "rejected"
    ELSE IF \A k \in DOMAIN f : f[k] = "resolved" THEN "fulfilled"
    ELSE "pending"

\* what the eight resources of the server hold
ServerData == MockData(MaxItems, MaxItems, << <<84>>, <<85>> >>)

RECURSIVE bufferedBytes(_)
\* writableLength: the bytes accepted and not yet written
bufferedBytes(buf) == IF buf = <<>> THEN 0 ELSE Len(Head(buf)) + bufferedBytes(Tail(buf))

\* the mutant of afterWrite that never waits for 'drain'
afterWriteNoWait(ret) == "loop"

\* rows 238-242: wait for 'drain' when write() returned false
afterWrite(ret) == IF ret THEN "loop" ELSE "waitDrain"

CmdInit ==
    /\ fetch = [k \in 1..8 |-> "pending"]
    /\ pc = "fetching"
    /\ wsState = "none"
    /\ wsBuffer = <<>>
    /\ needDrain = FALSE
    /\ ending = FALSE
    /\ file = <<>>
    /\ fileCreated = FALSE
    /\ printed = FALSE
    /\ promise = "pending"
    /\ reason = <<"none", 0>>
    /\ sinkError = FALSE
    /\ mockData = NoData
    /\ count \in 0..MaxCount
    /\ i = 0
    /\ rows = <<>>
    /\ offer = <<>>
    /\ gdone = FALSE
    /\ input = <<>>
    /\ pos = 0
    /\ remainder = <<>>
    /\ out = <<>>
    /\ warnings = <<>>
    /\ ipc = "idle"
    /\ cbError = FALSE
    /\ received = <<>>
    /\ cliPc = "idle"
    /\ cliRows = <<>>
    /\ cliData = <<>>
    /\ cliLog = <<>>
    /\ cliPromise = "pending"

\* one of the eight got(...).json() settles while the handler awaits
\* Promise.all; on rejection the catch block logs and rethrows; when all
\* have resolved the dataset is assembled and createWriteStream is called
FetchSettle(k, outcome) ==
    /\ pc = "fetching"
    /\ fetch[k] = "pending"
    /\ fetch' = [fetch EXCEPT ![k] = outcome]
    /\ \E all \in {promiseAll(fetch')} :
         /\ pc' = CASE all = "pending" -> "fetching" [] all = "rejected" -> "failed" [] all = "fulfilled" -> "loop"
         /\ promise' = IF all = "rejected" THEN "rejected" ELSE promise
         /\ reason' = IF all = "rejected" THEN <<"fetch", k>> ELSE reason
         /\ mockData' = IF all = "fulfilled" THEN ServerData ELSE mockData
         /\ wsState' = IF all = "fulfilled" THEN "opening" ELSE wsState
    /\ UNCHANGED <<count, i, rows, offer, gdone, wsBuffer, needDrain, ending, file, fileCreated, printed, sinkError>>

\* one iteration of the for await loop: the generator yields a row, the row
\* is written; write() returns false when the buffered bytes reach the
\* high water mark
Iterate ==
    /\ pc = "loop"
    /\ Yield
    /\ \E bytes \in {utf8Encode(rows'[Len(rows')])} :
         /\ wsBuffer' = Append(wsBuffer, bytes)
         /\ \E ret \in {bufferedBytes(wsBuffer) + Len(bytes) < HighWaterMark} :
              /\ needDrain' = (needDrain \/ ~ret)
              /\ pc' = afterWrite(ret)
    /\ UNCHANGED <<fetch, wsState, ending, file, fileCreated, printed, promise, reason, sinkError>>

\* the mutant of EndLoop that leaves the loop and ends the stream whether or
\* not the generator is exhausted
EndLoopEarly ==
    /\ pc = "loop"
    /\ ~gdone
    /\ gdone' = TRUE
    /\ ending' = TRUE
    /\ printed' = TRUE
    /\ promise' = "fulfilled"
    /\ pc' = "done"
    /\ UNCHANGED <<mockData, count, i, rows, offer>>
    /\ UNCHANGED <<fetch, wsState, wsBuffer, needDrain, file, fileCreated, reason, sinkError>>

\* the generator is exhausted: writeStream.end(), the success summary, and
\* the handler's promise fulfils
EndLoop ==
    /\ pc = "loop"
    /\ Return
    /\ ending' = TRUE
    /\ printed' = TRUE
    /\ promise' = "fulfilled"
    /\ pc' = "done"
    /\ UNCHANGED <<fetch, wsState, wsBuffer, needDrain, file, fileCreated, reason, sinkError>>

\* events of the sink reach the process between turns of the handler only:
\* while it awaits 'drain' or after it has returned
Parked == pc \in {"waitDrain", "done"} /\ ~sinkError

\* the file has been opened (created or truncated)
SinkOpen ==
    /\ Parked
    /\ wsState = "opening"
    /\ wsState' = "open"
    /\ fileCreated' = TRUE
    /\ UNCHANGED <<fetch, pc, wsBuffer, needDrain, ending, file, printed, promise, reason, sinkError>>
    /\ UNCHANGED genVars

\* the oldest buffered chunk has been written; when the buffer empties and a
\* write had returned false, 'drain' is emitted and the handler resumes
SinkWrite ==
    /\ Parked
    /\ wsState = "open"
    /\ wsBuffer # <<>>
    /\ file' = Append(file, Head(wsBuffer))
    /\ wsBuffer' = Tail(wsBuffer)
    /\ \E drain \in {Tail(wsBuffer) = <<>> /\ needDrain /\ ~ending} :
         /\ needDrain' = (needDrain /\ ~drain)
         /\ pc' = IF drain /\ pc = "waitDrain" THEN "loop" ELSE pc
    /\ UNCHANGED <<fetch, wsState, ending, fileCreated, printed, promise, reason, sinkError>>
    /\ UNCHANGED genVars

\* the sink emits 'error' (the open or a write failed): the stream has no
\* 'error' listener, so the event is thrown as an uncaught exception and the
\* process ends; the handler's promise stays as it is
SinkFail ==
    /\ Parked
    /\ \/ wsState = "opening"
       \/ wsState = "open" /\ wsBuffer # <<>>
    /\ sinkError' = TRUE
    /\ pc' = "crashed"
    /\ UNCHANGED <<fetch, wsState, wsBuffer, needDrain, ending, file, fileCreated, printed, promise, reason>>
    /\ UNCHANGED genVars

\* everything is written after end(): 'finish', the file is closed
SinkFinish ==
    /\ Parked
    /\ wsState = "open"
    /\ ending
    /\ wsBuffer = <<>>
    /\ wsState' = "closed"
    /\ UNCHANGED <<fetch, pc, wsBuffer, needDrain, ending, file, fileCreated, printed, promise, reason, sinkError>>
    /\ UNCHANGED genVars

CmdNext ==
    \/ \E k \in 1..8, outcome \in {"resolved", "rejected"} : FetchSettle(k, outcome) /\ UNCHANGED tsvVars /\ UNCHANGED cliVars
    \/ Iterate /\ UNCHANGED tsvVars /\ UNCHANGED cliVars
    \/ EndLoop /\ UNCHANGED tsvVars /\ UNCHANGED cliVars
    \/ SinkOpen /\ UNCHANGED tsvVars /\ UNCHANGED cliVars
    \/ SinkWrite /\ UNCHANGED tsvVars /\ UNCHANGED cliVars
    \/ SinkFail /\ UNCHANGED tsvVars /\ UNCHANGED cliVars
    \/ SinkFinish /\ UNCHANGED tsvVars /\ UNCHANGED cliVars

SpecCmd == CmdInit /\ [][CmdNext]_vars

----------------------------------------------------------------------------
(* The files the import is run on *)

Repeat(x, n) == [k \in 1..n |-> x]

\* a line of n fields: `first`, then n - 2 empty fields, then `last`
LineOf(n, first, last) ==
    IF n = 1 THEN first ELSE first \o Repeat(TAB, n - 1) \o last

\* the lines files are made of, as bytes: a valid row (with a two-byte
\* character in its first field), rows of 1 and of 19 fields, the empty
\* line, a line of one space, and the line of 17 tabs (18 empty fields, all
\* of it white space)
TestLines ==
    { LineOf(18, <<195, 169>>, <<97>>),
      LineOf(1, <<97>>, <<>>),
      LineOf(19, <<97>>, <<98>>),
      LineOf(1, <<>>, <<>>),
      LineOf(1, <<SPACE>>, <<>>),
      LineOf(18, <<>>, <<>>) }

RECURSIVE FilesOf(_)
\* the files of exactly n lines, each line but possibly the last ended by NL
FilesOf(n) ==
    IF n = 1 THEN TestLines \cup {l \o <<NL>> : l \in TestLines}
    ELSE {l \o <<NL>> \o f : l \in TestLines, f \in FilesOf(n - 1)}

Files == UNION {FilesOf(n) : n \in 1..MaxLines}

----------------------------------------------------------------------------
(* import: handleImportCommand *)

TSVInit ==
    /\ input \in Files
    /\ pos = 0
    /\ remainder = <<>>
    /\ out = <<>>
    /\ warnings = <<>>
    /\ ipc = "reading"
    /\ cbError = FALSE
    /\ received = <<>>
    /\ cliPc = "idle"
    /\ cliRows = <<>>
    /\ cliData = <<>>
    /\ cliLog = <<>>
    /\ cliPromise = "pending"
    /\ mockData = NoData
    /\ count = 0
    /\ i = 0
    /\ rows = <<>>
    /\ offer = <<>>
    /\ gdone = FALSE
    /\ fetch = [k \in 1..8 |-> "pending"]
    /\ pc = "idle"
    /\ wsState = "none"
    /\ wsBuffer = <<>>
    /\ needDrain = FALSE
    /\ ending = FALSE
    /\ file = <<>>
    /\ fileCreated = FALSE
    /\ printed = FALSE
    /\ promise = "pending"
    /\ reason = <<"none", 0>>
    /\ sinkError = FALSE

\* the read stream delivers the next k bytes; pipeline() hands them to
\* TSVTransform._transform, which ends by callback()
Transform(k) ==
    /\ ipc = "reading"
    /\ pos + k <= Len(input)
    /\ \E r \in {_transform(remainder, SubSeq(input, pos + 1, pos + k))} :
           /\ remainder' = r.remainder
           /\ out' = out \o r.push
           /\ warnings' = warnings \o r.warn
           /\ cbError' = r.err
           /\ ipc' = IF r.err THEN "failed" ELSE "reading"
    /\ pos' = pos + k
    /\ received' = received \o toString(SubSeq(input, pos + 1, pos + k))
    /\ UNCHANGED input

\* the read stream ends: pipeline() calls _flush, then resolves, and the
\* handler prints the success message
Flush ==
    /\ ipc = "reading"
    /\ pos = Len(input)
    /\ \E r \in {_flush(remainder)} :
           /\ out' = out \o r.push
           /\ warnings' = warnings \o r.warn
    /\ ipc' = "success"
    /\ UNCHANGED <<input, pos, remainder, cbError, received>>

\* the read stream fails (unreadable file): pipeline() rejects, the handler
\* logs and rethrows
ReadError ==
    /\ ipc = "reading"
    /\ ipc' = "failed"
    /\ UNCHANGED <<input, pos, remainder, out, warnings, cbError, received>>

TSVNext ==
    \/ \E k \in 0..MaxChunk : Transform(k) /\ UNCHANGED genVars /\ UNCHANGED cmdVars /\ UNCHANGED cliVars
    \/ Transform(Len(input) - pos) /\ UNCHANGED genVars /\ UNCHANGED cmdVars /\ UNCHANGED cliVars
    \/ Flush /\ UNCHANGED genVars /\ UNCHANGED cmdVars /\ UNCHANGED cliVars
    \/ ReadError /\ UNCHANGED genVars /\ UNCHANGED cmdVars /\ UNCHANGED cliVars

SpecTSV == TSVInit /\ [][TSVNext]_vars

----------------------------------------------------------------------------
(* cli.ts: the non-streaming handleImportCommand *)

\* what a destructured element or a missing argument is: <<>> for
\* undefined, <<v>> for the value v
at(fields, k) == IF k <= Len(fields) THEN <<fields[k]>> ELSE <<>>

\* the text 'NaN'
NaN == <<78, 97, 78>>

\* Number(v), as the text of the number: NaN for undefined, 0 for a blank
\* string, the string itself when it is a plain decimal numeral, NaN for
\* other text
Number(v) ==
    IF v = <<>> THEN NaN
    ELSE IF trimIsEmpty(v[1]) THEN <<48>>
    ELSE IF /\ \A k \in 1..Len(v[1]) : v[1][k] \in (48..57) \cup {46}
            /\ Len(SelectSeq(v[1], LAMBDA c : c = 46)) <= 1
            /\ v[1] # <<46>>
         THEN v[1]
    ELSE NaN

\* the mutant of throwsTypeError that throws whenever one of the 18
\* destructured elements is undefined
throwsTypeErrorOnAnyUndefined(fields) == at(fields, 18) = <<>>

\* the callback of rows.map throws a TypeError when it calls .split on
\* undefined: photos is the 5th element of row.split('\t'), features the 12th
throwsTypeError(fields) == at(fields, 5) = <<>> \/ at(fields, 12) = <<>>

\* the object the callback of rows.map returns for a row whose photos and
\* features are strings
rowObject(fields) ==
    [title |-> at(fields, 1),
     description |-> at(fields, 2),
     city |-> at(fields, 3),
     previewImage |-> at(fields, 4),
     photos |-> split(fields[5], SEMI),
     isPremium |-> at(fields, 6) = << <<116, 114, 117, 101>> >>,
     rating |-> Number(at(fields, 7)),
     type |-> at(fields, 8),
     rooms |-> Number(at(fields, 9)),
     guests |-> Number(at(fields, 10)),
     price |-> Number(at(fields, 11)),
     features |-> split(fields[12], SEMI),
     author |-> [name |-> at(fields, 13), email |-> at(fields, 14), avatarUrl |-> at(fields, 15),
                 isPro |-> at(fields, 16) = << <<116, 114, 117, 101>> >>],
     location |-> [latitude |-> Number(at(fields, 17)), longitude |-> Number(at(fields, 18))]]

\* a row of n fields: the k-th field is one letter, the 5th 'p;q', the 7th
\* '4.5', the 12th 'f;g;h'
CliLine(n) ==
    join([k \in 1..n |->
            CASE k = 5 -> <<112, SEMI, 113>>
              [] k = 7 -> <<52, 46, 53>>
              [] k = 12 -> <<102, SEMI, 103, SEMI, 104>>
              [] OTHER -> <<96 + k>>], TAB)

\* the rows files are made of: the empty row and rows of 4, 5, 11, 12 and 18
\* fields
CliLines == {CliLine(n) : n \in {0, 4, 5, 11, 12, 18}}

RECURSIVE CliFilesOf(_)
\* the files of n rows, with and without a final newline
CliFilesOf(n) ==
    IF n = 1 THEN CliLines \cup {l \o <<NL>> : l \in CliLines}
    ELSE {l \o <<NL>> \o f : l \in CliLines, f \in CliFilesOf(n - 1)}

CliFiles == UNION {CliFilesOf(n) : n \in 1..MaxLines}

CliInit ==
    /\ input \in CliFiles
    /\ cliPc = "reading"
    /\ cliRows = <<>>
    /\ cliData = <<>>
    /\ cliLog = <<>>
    /\ cliPromise = "pending"
    /\ pos = 0
    /\ remainder = <<>>
    /\ out = <<>>
    /\ warnings = <<>>
    /\ ipc = "idle"
    /\ cbError = FALSE
    /\ received = <<>>
    /\ mockData = NoData
    /\ count = 0
    /\ i = 0
    /\ rows = <<>>
    /\ offer = <<>>
    /\ gdone = FALSE
    /\ fetch = [k \in 1..8 |-> "pending"]
    /\ pc = "idle"
    /\ wsState = "none"
    /\ wsBuffer = <<>>
    /\ needDrain = FALSE
    /\ ending = FALSE
    /\ file = <<>>
    /\ fileCreated = FALSE
    /\ printed = FALSE
    /\ promise = "pending"
    /\ reason = <<"none", 0>>
    /\ sinkError = FALSE

\* the catch block: the error is logged, the handler returns normally
CliCaught ==
    /\ cliLog' = Append(cliLog, [msg |-> "Failed to import data:", n |-> 0])
    /\ cliPc' = "done"
    /\ cliPromise' = "fulfilled"

\* readFile resolves with the whole file decoded as UTF-8; the content is
\* split into rows
CliReadFile ==
    /\ cliPc = "reading"
    /\ cliRows' = split(toString(input), NL)
    /\ cliPc' = "mapping"
    /\ UNCHANGED <<cliData, cliLog, cliPromise>>

\* readFile rejects (no such file): caught
CliReadFileFails ==
    /\ cliPc = "reading"
    /\ CliCaught
    /\ UNCHANGED <<cliRows, cliData>>

\* rows.map calls the callback on the next row: it returns an object, or it
\* throws and the catch block takes over
CliMapRow ==
    /\ cliPc = "mapping"
    /\ Len(cliData) < Len(cliRows)
    /\ \E fields \in {split(cliRows[Len(cliData) + 1], TAB)} :
         IF throwsTypeError(fields)
         THEN CliCaught /\ UNCHANGED <<cliRows, cliData>>
         ELSE /\ cliData' = Append(cliData, rowObject(fields))
              /\ UNCHANGED <<cliRows, cliPc, cliLog, cliPromise>>

\* rows.map has returned: the two success messages, the handler returns
CliSuccess ==
    /\ cliPc = "mapping"
    /\ Len(cliData) = Len(cliRows)
    /\ cliLog' = cliLog \o << [msg |-> "Data imported successfully!", n |-> 0],
                             [msg |-> "Total offers imported:", n |-> Len(cliData)] >>
    /\ cliPc' = "done"
    /\ cliPromise' = "fulfilled"
    /\ UNCHANGED <<cliRows, cliData>>

CliNext ==
    \/ CliReadFile /\ UNCHANGED tsvVars /\ UNCHANGED genVars /\ UNCHANGED cmdVars
    \/ CliReadFileFails /\ UNCHANGED tsvVars /\ UNCHANGED genVars /\ UNCHANGED cmdVars
    \/ CliMapRow /\ UNCHANGED tsvVars /\ UNCHANGED genVars /\ UNCHANGED cmdVars
    \/ CliSuccess /\ UNCHANGED tsvVars /\ UNCHANGED genVars /\ UNCHANGED cmdVars

SpecCli == CliInit /\ [][CliNext]_vars

----------------------------------------------------------------------------
(* Claims about the import *)

\* the JSON lines of a file given to the transform as one single chunk
OneChunkRun(bytes) ==
    LET t == _transform(<<>>, bytes)
    IN  t.push \o _flush(t.remainder).push

\* C1: chunk-boundary independence: however the bytes of the file are cut
\* into chunks, the JSON lines pushed by the _transform calls and the final
\* _flush are those pushed when the file arrives as one single chunk.
C1_ChunkIndependence == ipc = "success" => out = OneChunkRun(input)

\* the newline-terminated lines among the bytes delivered so far, each
\* decoded as a whole
TerminatedLines ==
    LET lines == split(SubSeq(input, 1, pos), NL)
    IN  [k \in 1..(Len(lines) - 1) |-> toString(lines[k])]

\* the subsequence of the field counts that are not n
SelectSeq2(counts, n) == SelectSeq(counts, LAMBDA c : c # n)

\* the field counts of the non-blank terminated lines delivered so far
NonBlankFieldCounts ==
    LET nb == SelectSeq(TerminatedLines, LAMBDA l : ~trimIsEmpty(l))
    IN  [k \in 1..Len(nb) |-> Len(split(nb[k], TAB))]

\* C2: every newline-terminated non-blank line whose field count is not 18 is
\* skipped with a warning and pushes nothing, the callback is never given an
\* error (the import fails on a read error only), and every terminated valid
\* line, before or after it, is pushed: the warnings are, in order, the
\* malformed lines, the JSON lines, in order, the valid ones (plus at most one
\* pushed by the final flush), and the command then reports success.
C2_MalformedLineSkipped ==
    /\ ~cbError
    /\ ipc \in {"reading", "success"} =>
         \E counts \in {NonBlankFieldCounts} :
            LET valid == Len(counts) - Len(SelectSeq2(counts, Len(columns)))
            IN  /\ [j \in 1..Len(warnings) |-> Len(split(warnings[j], TAB))] = SelectSeq2(counts, Len(columns))
                /\ Len(out) >= valid
                /\ Len(out) <= valid + (IF ipc = "success" THEN 1 ELSE 0)
                /\ \A j \in 1..Len(out) : Len(out[j]) = Len(columns)

\* a valid line, a line of 19 fields and a valid line again were imported:
\* two JSON lines, one warning, success
C2_Witness ==
    /\ ipc = "success"
    /\ input = LineOf(18, <<195, 169>>, <<97>>) \o <<NL>> \o LineOf(19, <<97>>, <<98>>) \o <<NL>> \o LineOf(18, <<195, 169>>, <<97>>) \o <<NL>>
    /\ Len(out) = 2
    /\ Len(warnings) = 1

\* C3: at end of input _flush handles a non-empty remainder R with the step
\* _transform applies to a terminated line: what _flush pushes and warns about
\* for R is what the loop body of _transform pushes and warns about for R.
C3_FlushIsLineStep ==
    [][(ipc = "reading" /\ ipc' = "success" /\ remainder # <<>>) =>
          /\ out' = out \o lineStep(remainder).push
          /\ warnings' = warnings \o lineStep(remainder).warn]_vars

\* C12: the remainder is empty before the first chunk, and once _flush has
\* run (the import has reported success) the remainder is empty again.
C12_RemainderCleared ==
    /\ pos = 0 => remainder = <<>>
    /\ ipc = "success" => remainder = <<>>

\* the lines of a text whose every line is newline-terminated
LinesOf(text) == SubSeq(split(text, NL), 1, Len(split(text, NL)) - 1)

\* the JSON lines an input of newline-terminated lines stands for: one for
\* each line that is not blank and has 18 fields, in input order
Transcoded(bytes) ==
    LET good == SelectSeq(LinesOf(toString(bytes)), LAMBDA l : ~trimIsEmpty(l) /\ Len(split(l, TAB)) = Len(columns))
    IN  [k \in 1..Len(good) |-> jsonLine(split(good[k], TAB))]

\* C13: for an input whose every line is newline-terminated, and any
\* chunking, the JSON lines pushed are exactly the non-blank 18-field lines
\* of the input, in input order, each once, as the object that zips the
\* column names with the line's field values.
C13_ExactlyOnceInOrder ==
    (ipc = "success" /\ input # <<>> /\ input[Len(input)] = NL) => out = Transcoded(input)

\* C17: after every _transform call the remainder holds no newline and is
\* the text that follows the last newline of all the chunk text received so
\* far (all of it when no newline was received): at most one unterminated
\* line is buffered. The text of a chunk is what chunk.toString() gives.
C17_RemainderIsTail ==
    /\ \A k \in 1..Len(remainder) : remainder[k] # NL
    /\ remainder = split(received, NL)[Len(split(received, NL))]

\* several chunks in, two newlines received, an unterminated line buffered
\* and more of the file to come
C17_Witness ==
    /\ ipc = "reading"
    /\ pos < Len(input)
    /\ Len(split(received, NL)) = 3
    /\ remainder # <<>>
    /\ Len(remainder) < Len(received)

----------------------------------------------------------------------------
(* Claims about generateOffers *)

\* a row without its last character
Chop(row) == SubSeq(row, 1, Len(row) - 1)

\* C4: generateOffers yields exactly count rows and then finishes, and each
\* row ends with a single newline and splits on tab into exactly 18 fields.
C4_RowsShape ==
    /\ Len(rows) <= count
    /\ gdone => Len(rows) = count
    /\ \A k \in 1..Len(rows) :
          /\ rows[k][Len(rows[k])] = NL
          /\ Len(split(rows[k], NL)) = 2
          /\ Len(split(Chop(rows[k]), TAB)) = Len(columns)

\* the number of items in a ;-joined field
ItemsIn(field) == Len(split(field, SEMI))

Min(a, b) == IF a < b THEN a ELSE b

\* C5 as stated: for every dataset whose previewImages and features are not
\* empty, every generated offer has 3 to 6 photos and 2 to 6 features.
C5_SampleSizesAnyDataset ==
    (offer # <<>> /\ mockData.previewImages # <<>> /\ mockData.features # <<>>) =>
        /\ ItemsIn(offer[1].photos) \in 3..6
        /\ ItemsIn(offer[1].features) \in 2..6

\* C5 as amended: every generated offer has between min(3, n) and min(6, n)
\* photos, n the number of preview images of the dataset, and between
\* min(2, m) and min(6, m) features, m the number of its features: 3 to 6
\* photos when n >= 3, 2 to 6 features when m >= 2.
C5_SampleSizes ==
    (offer # <<>> /\ mockData.previewImages # <<>> /\ mockData.features # <<>>) =>
        /\ ItemsIn(offer[1].photos) >= Min(3, Len(mockData.previewImages))
        /\ ItemsIn(offer[1].photos) <= Min(6, Len(mockData.previewImages))
        /\ ItemsIn(offer[1].features) >= Min(2, Len(mockData.features))
        /\ ItemsIn(offer[1].features) <= Min(6, Len(mockData.features))

\* an offer with 6 photos out of more than 6 preview images and 6 features
\* out of more than 6
C5_Witness ==
    /\ offer # <<>>
    /\ Len(mockData.previewImages) > 6
    /\ Len(mockData.features) > 6
    /\ ItemsIn(offer[1].photos) = 6
    /\ ItemsIn(offer[1].features) = 6

\* C14: getRandomItems(items, count) returns the elements at pairwise
\* distinct positions of items, min(count, |items|) of them: fewer than asked
\* for when items is shorter. Checked for the two lists of every dataset,
\* every count from 0 to one more than the longest list and all draws; and
\* the photos and features of every generated offer are pairwise distinct
\* elements of the dataset's lists (whose elements are distinct).
C14_DistinctPositions ==
    /\ i = 0 =>
          \A items \in {mockData.previewImages, mockData.features}, cnt \in 0..(MaxItems + 1), tape \in Tapes, j \in {1, 5} :
             \E positions \in {getRandomItems([k \in 1..Len(items) |-> k], cnt, tape, j).items} :
                /\ Len(positions) = Min(cnt, Len(items))
                /\ \A m \in 1..Len(positions) : positions[m] \in 1..Len(items)
                /\ \A a, b \in 1..Len(positions) : a # b => positions[a] # positions[b]
                /\ getRandomItems(items, cnt, tape, j).items = [m \in 1..Len(positions) |-> items[positions[m]]]
    /\ offer # <<>> =>
          \A pair \in {<<offer[1].photos, mockData.previewImages>>, <<offer[1].features, mockData.features>>} :
             \E picked \in {split(pair[1], SEMI)} :
                /\ \A m \in 1..Len(picked) : \E k \in 1..Len(pair[2]) : picked[m] = pair[2][k]
                /\ \A a, b \in 1..Len(picked) : a # b => picked[a] # picked[b]

\* two preview images only, at least three photos asked for: the offer has
\* the two images, in the other order
C14_Witness ==
    /\ offer # <<>>
    /\ Len(mockData.previewImages) = 2
    /\ offer[1].photos = join(<<mockData.previewImages[2], mockData.previewImages[1]>>, SEMI)

\* C15: a pull from generateOffers leaves every collection of the dataset
\* as it was, element for element: the shuffle of getRandomItems reorders a
\* copy, not the source list.
C15_DatasetImmutable == [][i' # i => mockData' = mockData]_vars

\* two pulls from a dataset of MaxItems preview images, the last offer's
\* photos starting with another image than the list's first: the shuffle
\* has reordered its copy, the list is as it was
C15_Witness ==
    /\ Len(rows) = 2
    /\ Len(mockData.previewImages) > 6
    /\ split(offer[1].photos, SEMI)[1] # mockData.previewImages[1]
    /\ mockData \in MockDataSets

IsDigit(c) == c \in 48..57

\* C6: in every generated offer rooms is an integer in [1,5], guests in
\* [1,10], price in [50,1000], and rating is printed with one fractional
\* digit and lies in [3.0, 5.0].
C6_NumericRanges ==
    offer # <<>> =>
        /\ offer[1].rooms \in 1..5
        /\ offer[1].guests \in 1..10
        /\ offer[1].price \in 50..1000
        /\ Len(offer[1].rating) = 3
        /\ IsDigit(offer[1].rating[1]) /\ offer[1].rating[2] = 46 /\ IsDigit(offer[1].rating[3])
        /\ 10 * (offer[1].rating[1] - 48) + (offer[1].rating[3] - 48) \in 30..50

\* both ends are reached: a first row with rating 3.0, rooms 1, guests 1 and
\* price 50, then an offer with rating 5.0, rooms 5, guests 10 and price 1000
C6_Witness ==
    /\ Len(rows) = 2
    /\ Len(split(Chop(rows[1]), TAB)) = Len(columns)
    /\ SubSeq(split(Chop(rows[1]), TAB), 7, 11) = << <<51, 46, 48>>, <<104>>, <<49>>, <<49>>, <<53, 48>> >>
    /\ offer[1].rating = <<53, 46, 48>>
    /\ offer[1].rooms = 5
    /\ offer[1].guests = 10
    /\ offer[1].price = 1000

RECURSIVE Unsigned(_)
\* the number a string of digits with a decimal point stands for, the point
\* left out: '2.352200' gives 2352200
Unsigned(str) ==
    IF str = <<>> THEN 0
    ELSE IF str[Len(str)] = 46 THEN Unsigned(SubSeq(str, 1, Len(str) - 1))
    ELSE 10 * Unsigned(SubSeq(str, 1, Len(str) - 1)) + (str[Len(str)] - 48)

\* a coordinate as written in the row, in millionths of a degree
Millionths(str) == IF str[1] = 45 THEN 0 - Unsigned(Tail(str)) ELSE Unsigned(str)

Abs(x) == IF x < 0 THEN 0 - x ELSE x

\* a distance in millionths of a degree, in hundred-thousandths, rounded up
UpTens(d) == (d + 9) \div 10

C7_RoundTrip ==
    (ipc \in {"success", "failed"} /\ pc = "idle") =>
        /\ Len(out) = Len(rows)
        /\ \A r \in 1..Len(rows) :
              \E fields \in {split(Chop(rows[r]), TAB)} :
                 /\ Len(fields) = Len(columns)
                 /\ r <= Len(out) => out[r] = [k \in 1..Len(columns) |-> <<columns[k], fields[k]>>]

----------------------------------------------------------------------------
(* Claims about handleGenerateCommand *)

\* C8: when a write returns false (the buffered bytes reach the high water
\* mark) the handler waits: no row is pulled and no write is issued until
\* 'drain'; the 'drain' makes it go on; and after a write that returns true
\* it goes on without waiting.
C8_Backpressure ==
    [][/\ needDrain => (rows' = rows /\ Len(file') + Len(wsBuffer') = Len(file) + Len(wsBuffer))
       /\ (needDrain /\ ~needDrain') => pc' = "loop"
       /\ Len(rows') > Len(rows) =>
             IF bufferedBytes(wsBuffer') >= HighWaterMark
             THEN needDrain' /\ pc' = "waitDrain"
             ELSE ~needDrain' /\ pc' = "loop"]_vars

\* a first write returned true, a second one false, the handler waited, the
\* sink wrote both rows and emitted 'drain', and the handler is running again
C8_Witness ==
    /\ pc = "loop"
    /\ Len(file) = 2
    /\ wsBuffer = <<>>
    /\ ~needDrain

\* C9: a write error of the sink makes the command fail: no success summary
\* is printed and the promise of the command rejects with that error.
C9_WriteErrorRejects ==
    sinkError => (~printed /\ promise = "rejected" /\ reason[1] = "write")

\* C10: the dataset is assembled, the output file opened and rows generated
\* only once all eight fetches have resolved; if a fetch fails the command
\* fails with the error of a failed fetch, no row is generated, no file is
\* created or written and no dataset is used.
C10_FetchJoin ==
    /\ (wsState # "none" \/ fileCreated \/ rows # <<>> \/ file # <<>> \/ mockData.cities # <<>>) =>
          \A k \in 1..8 : fetch[k] = "resolved"
    /\ (\E k \in 1..8 : fetch[k] = "rejected") =>
          /\ pc = "failed"
          /\ promise = "rejected"
          /\ reason[1] = "fetch"
          /\ fetch[reason[2]] = "rejected"
          /\ ~printed
          /\ rows = <<>>
          /\ wsState = "none"
          /\ ~fileCreated
          /\ file = <<>>
          /\ mockData.cities = <<>>

\* the command has failed on the eighth fetch, the seven others resolved
C10_Witness ==
    /\ pc = "failed"
    /\ Cardinality({k \in 1..8 : fetch[k] = "resolved"}) = 7

\* the chunks given to write() so far, in order: those the sink has written
\* and those it still buffers
Issued == file \o wsBuffer

\* C11: end() is called once, when the generator is exhausted and all count
\* rows have been given to write(); after end() nothing is written and the
\* handler takes no further step; the chunks given to write() are at all
\* times the rows generated so far, in generation order, each once.
C11_SinkClosedOnce ==
    [][/\ (~ending /\ ending') =>
             /\ pc = "loop"
             /\ Len(rows) = count
             /\ rows' = rows
             /\ Issued' = Issued
       /\ ending => (ending' /\ rows' = rows /\ Issued' = Issued /\ pc' \in {"done", "crashed"})
       /\ pc' = "done" => ending'
       /\ Issued' = [k \in 1..Len(rows') |-> utf8Encode(rows'[k])]]_vars

\* two rows were asked for, both are in the file, and the sink has finished
C11_Witness ==
    /\ count = 2
    /\ ending
    /\ wsState = "closed"
    /\ Len(file) = 2

\* C18: the success summary is printed only once the sink has finished with
\* all count rows in the file: a printed success implies that the file
\* holds the count rows.
C18_SuccessAfterFinish ==
    printed =>
        /\ wsState = "closed"
        /\ Len(file) = count
        /\ file = [k \in 1..Len(rows) |-> utf8Encode(rows[k])]

----------------------------------------------------------------------------
(* Claims about the handler of cli.ts *)

\* the handler has logged the failure message, and nothing else
CliFailed == Len(cliLog) = 1 /\ cliLog[1].msg = "Failed to import data:"

\* the handler has logged the success message and the total n
CliSucceeded(n) ==
    /\ Len(cliLog) = 2
    /\ cliLog[1].msg = "Data imported successfully!"
    /\ cliLog[2] = [msg |-> "Total offers imported:", n |-> n]

\* C19: the handler of cli.ts never rejects: it ends fulfilled, having
\* logged either the failure or the success; when the file could be read it
\* reports success, with the number of rows of content.split('\n') as total,
\* if and only if every one of these rows, the empty one after a final
\* newline included, has at least 12 tab-separated fields; so a file that
\* ends with a newline is reported as failed.
C19_CliImport ==
    /\ cliPromise # "rejected"
    /\ cliPc # "done" => cliPromise = "pending" /\ cliLog = <<>>
    /\ cliPc = "done" =>
          /\ cliPromise = "fulfilled"
          /\ cliRows = <<>> => CliFailed
          /\ cliRows # <<>> =>
                \E content \in {split(toString(input), NL)} :
                   IF \A r \in 1..Len(content) : Len(split(content[r], TAB)) >= 12
                   THEN CliSucceeded(Len(content))
                   ELSE CliFailed
          /\ (cliRows # <<>> /\ input # <<>> /\ input[Len(input)] = NL) => CliFailed

\* a file of two rows of 18 fields, each ended by a newline, was read, its
\* two rows were mapped, and the import is reported as failed
C19_Witness ==
    /\ cliPc = "done"
    /\ input = CliLine(18) \o <<NL>> \o CliLine(18) \o <<NL>>
    /\ Len(cliData) = 2
    /\ CliFailed

====
